---- MODULE Spec2Model ----
(***************************************************************************)
(* Model of the retry supervisor and the extraction session of             *)
(* modules/scraper.py (GoogleReviewsScraper): the three-attempt loop of    *)
(* scrape, the browser life cycle (_start_driver / _quit_driver), the      *)
(* phases of one attempt (listing name, cookie dialog, reviews tab, sort   *)
(* order, panel) and the scroll/extract/dedupe loop.                       *)
(*                                                                         *)
(* The page and the browser are the environment: every call into them      *)
(* has its outcome (success, timeout, staleness, another driver error)     *)
(* chosen nondeterministically.  Strings are sequences of tokens, a token  *)
(* being one character or one fixed substring.                             *)
(***************************************************************************)
EXTENDS Integers, Sequences, FiniteSets, TLC

(* ------------------------------ bounds --------------------------------- *)
\* identifiers the free panel can show are 1..NumIds
NumIds == 2
\* cards the free panel renders at once
MaxCards == 2
\* distinct renderings (contents) one identifier can be shown with
NumContents == 2
\* elements the reviews-tab selectors match on the page, all selectors together
MaxTabElements == 2
\* entries of the sort menu
MaxMenuItems == 1
\* records already collected when the progress computation is observed
MaxFound == 155
\* length of the texts handed to safe_int
MaxIntLen == 3
\* the counts 0..MaxDateNum appear in relative dates
MaxDateNum == 3
\* elements a selector matches under one scope
MaxElems == 2
\* distinct texts given to detect_lang in one run
MaxLangTexts == 2
\* jobs created by detect_endpoint
NumJobs == 2
\* reviews in the data a job's scraper returns
MaxJobReviews == 0

(* -------------------------- program constants -------------------------- *)
MaxAttempts == 3
BackoffSeconds == 5
IdleLimit == 5
ProgressFullCount == 150

NoDriver == 0
\* the value get_attribute gives for a card without an identifier
NoId == 0
Ids == 1..NumIds
Contents == 1..NumContents

UnknownCompany == <<"Unknown Company">>
UnknownShort == <<"Unknown">>
TitleSuffix == " - Google Maps"
COMPANY_NAME_SELECTORS == <<"h1.fontHeadlineLarge", "h1[aria-label]", "div.fontTitleLarge.m6QErb">>

VARIABLES
    pc,                  \* position of scrape
    attempt,             \* loop variable of "for attempt in range(3)"
    driver,              \* self.driver: NoDriver or the browser instance
    company_name,        \* self.company_name
    job_info,            \* the progress sink handed to scrape
    docs,                \* local dict of _scroll_and_extract_reviews, in insertion order
    seen,                \* local set of _scroll_and_extract_reviews
    idle_scrolls,
    new_reviews_in_pass,
    cards,               \* identifiers of the cards the current pass has still to visit
    result,              \* the value scrape returned
    panelScript,         \* the panel: the card lists of passes 1, 2, ... when it is
                         \* scripted, and what reading a card can do
    remaining,           \* scripted panel: what is left of the script in this attempt
    \* ---- history variables (not program state) ----
    open,                \* browser instances started and not yet quit
    launches,            \* attempts started (calls of _start_driver)
    failed,              \* attempts (1-based) that failed
    backoffs,            \* attempts (1-based) after which the backoff pause was taken
    outcome,             \* how scrape ended: "none", "success", "exhausted"
    firstRead,           \* <<id, content>> of the first card read in full, per identifier
    attemptRecords,      \* records inserted by the current attempt, in order
    lostIds,             \* identifiers of the records held by an attempt when it failed
    quietPasses,         \* passes in a row that did not enlarge the seen set
    grewInPass,          \* the seen set was enlarged during the current pass
    passCount,           \* passes of the while loop completed by the current attempt
    phases,              \* phases entered by the current attempt, in order
    writes,              \* percentages written to the sink by the current attempt, in order
    foundName,           \* the latest name an attempt discovered (<<>> if none did)
    note,                \* what the step just taken met and did (kept for one step)
    \* ---- modules/utils.py, modules/s3_handler.py ----
    call,                \* the last call of a utility: function, arguments, outcome
    lang_cache,          \* the lru_cache of detect_lang, least recently used first
    \* ---- app_backend.py ----
    jobs,                \* the global dict jobs: job id -> job entry
    task,                \* the run_scraper_task threads: position and locals of each
    scrapers,            \* the GoogleReviewsScraper objects the threads created
    chromes,             \* browser instances started by those scrapers so far
    \* ---- modules/config.py ----
    default_config       \* the module-level dict DEFAULT_CONFIG

vars == <<pc, attempt, driver, company_name, job_info, docs, seen, idle_scrolls,
          new_reviews_in_pass, cards, result, panelScript, remaining,
          open, launches, failed, backoffs, outcome, firstRead, attemptRecords,
          lostIds, quietPasses, passCount, grewInPass, phases, writes, foundName, note,
          call, lang_cache, jobs, task, scrapers, chromes, default_config>>

progVars == <<docs, seen, idle_scrolls, new_reviews_in_pass, cards>>
loopHist == <<firstRead, attemptRecords, quietPasses, grewInPass, passCount>>
\* the scraper's own state
scraperVars == <<pc, attempt, driver, company_name, job_info, docs, seen, idle_scrolls,
                 new_reviews_in_pass, cards, result, panelScript, remaining,
                 open, launches, failed, backoffs, outcome, firstRead, attemptRecords,
                 lostIds, quietPasses, passCount, grewInPass, phases, writes, foundName, note>>
\* what no step of the scraper touches
jobVars == <<jobs, task, scrapers, chromes>>
otherVars == <<call, lang_cache, jobVars, default_config>>
\* what only the supervisor's own steps change
supVars == <<attempt, driver, open, launches, failed, backoffs, result, outcome>>

(* ------------------------------ helpers -------------------------------- *)
Min(a, b) == IF a < b THEN a ELSE b

\* all sequences over S of length at most n
SeqsUpTo(S, n) == UNION {[1..k -> S] : k \in 0..n}

\* variant: the loop runs one iteration more
AttemptRange_OneMore == 0..MaxAttempts

\* range(3)
AttemptRange == 0..(MaxAttempts - 1)

(* ---------------------------- progress sink ---------------------------- *)
NoSink == [has |-> FALSE, percentage |-> 0, message |-> <<>>]
\* the sink as run_scraper_task leaves it before calling scrape
CallerSink == [has |-> TRUE, percentage |-> 5, message |-> <<"Initializing scraper...">>]

\* "if job_info: job_info['progress']['percentage'] = p"
SetPercentage(j, p) == IF j.has THEN [j EXCEPT !.percentage = p] ELSE j
\* "if job_info:" followed by a write of percentage and message
SetProgress(j, p, m) == IF j.has THEN [j EXCEPT !.percentage = p, !.message = m] ELSE j

\* variant: the share of the full count is not capped at 1
ScrollPercentage_NoCap(n) == 60 + ((n * 30) \div ProgressFullCount)

\* 60 + int(min(len(docs) / 150.0, 1.0) * 30)
ScrollPercentage(n) == 60 + ((Min(n, ProgressFullCount) * 30) \div ProgressFullCount)

(* ------------------------------- text ---------------------------------- *)
\* str.lower() on one character of the alphabet used here
LowerChar(c) ==
    CASE c = "R" -> "r" [] c = "M" -> "m" [] c = "N" -> "n" [] c = "E" -> "e"
      [] c = "W" -> "w" [] c = "T" -> "t" [] c = "S" -> "s" [] c = "A" -> "a"
      [] OTHER -> c

\* str.lower()
Lower(t) == [i \in 1..Len(t) |-> LowerChar(t[i])]

\* w in t, for strings
IsSubstring(w, t) ==
    \E i \in 0..(Len(t) - Len(w)) : SubSeq(t, i + 1, i + Len(w)) = w

RECURSIVE LStrip(_)
LStrip(t) == IF t # <<>> /\ Head(t) = " " THEN LStrip(Tail(t)) ELSE t

RECURSIVE RStrip(_)
RStrip(t) == IF t # <<>> /\ t[Len(t)] = " " THEN RStrip(SubSeq(t, 1, Len(t) - 1)) ELSE t

\* str.strip()
Strip(t) == RStrip(LStrip(t))

\* sep in t
Contains(t, sep) == \E i \in 1..Len(t) : t[i] = sep

\* t.split(sep)[0]
RECURSIVE BeforeFirst(_, _)
BeforeFirst(t, sep) ==
    IF t = <<>> \/ Head(t) = sep THEN <<>> ELSE <<Head(t)>> \o BeforeFirst(Tail(t), sep)

(* ------------------------ _get_company_name ---------------------------- *)
\* what one candidate selector gives: the wait times out, the element's text
\* is read, or another driver error is raised
Texts == {<<>>, <<" ">>, <<" ", "a", " ">>}
SelectorOutcomes ==
    {[kind |-> "timeout", text |-> <<>>], [kind |-> "error", text |-> <<>>]}
        \cup {[kind |-> "text", text |-> t] : t \in Texts}
Titles == {<<"b", " ", TitleSuffix>>, <<TitleSuffix>>, <<"b">>}
TitleOutcomes == {[kind |-> "error", text |-> <<>>]} \cup {[kind |-> "text", text |-> t] : t \in Titles}

\* the for loop over COMPANY_NAME_SELECTORS, from selector i on
RECURSIVE ScanSelectors(_, _)
ScanSelectors(sels, i) ==
    IF i > Len(sels) THEN [kind |-> "none", text |-> <<>>]
    ELSE IF sels[i].kind = "timeout" THEN ScanSelectors(sels, i + 1)
    ELSE IF sels[i].kind = "error" THEN [kind |-> "error", text |-> <<>>]
    ELSE IF Strip(sels[i].text) # <<>> THEN [kind |-> "found", text |-> Strip(sels[i].text)]
    ELSE ScanSelectors(sels, i + 1)

\* variant: after a candidate raised, the page title is still tried
GetCompanyName_ErrorFallsToTitle(sels, title) ==
    LET s == ScanSelectors(sels, 1) IN
    IF s.kind = "found" THEN s.text
    ELSE IF title.kind = "error" THEN UnknownCompany
    ELSE IF Contains(title.text, TitleSuffix) THEN Strip(BeforeFirst(title.text, TitleSuffix))
    ELSE UnknownCompany

\* the value _get_company_name returns
GetCompanyName(sels, title) ==
    LET s == ScanSelectors(sels, 1) IN
    IF s.kind = "found" THEN s.text
    ELSE IF s.kind = "error" THEN UnknownCompany
    ELSE IF title.kind = "error" THEN UnknownCompany
    ELSE IF Contains(title.text, TitleSuffix) THEN Strip(BeforeFirst(title.text, TitleSuffix))
    ELSE UnknownCompany

\* where the returned name came from
NameSource(sels, title) ==
    LET s == ScanSelectors(sels, 1) IN
    IF s.kind = "found" THEN "selector"
    ELSE IF s.kind = "error" \/ title.kind = "error" THEN "sentinel"
    ELSE IF Contains(title.text, TitleSuffix) THEN "title"
    ELSE "sentinel"

\* the percentages _get_company_name writes, in order
CompanyNameWrites(sels) ==
    IF ScanSelectors(sels, 1).kind = "found" THEN <<25, 40>> ELSE <<25>>

\* the sink as _get_company_name leaves it
CompanyNameProgress(j, sels) ==
    LET s == ScanSelectors(sels, 1)
        ws == CompanyNameWrites(sels)
        j1 == SetProgress(j, ws[1], <<"Searching for company name...">>) IN
    IF s.kind = "found" THEN SetProgress(j1, ws[2], <<"Found company", s.text>>) ELSE j1

(* --------------------------- browser handle ---------------------------- *)
QuitOutcomes == {"ok", "raise"}

\* variant: a failure of driver.quit() is not swallowed
QuitDriver_Propagates(d, o, q) ==
    [driver |-> NoDriver,
     open   |-> IF d # NoDriver THEN o \ {d} ELSE o,
     raised |-> d # NoDriver /\ q = "raise"]

\* _quit_driver on handle d, with o the started instances; q is what
\* driver.quit() does.  An instance counts as released once quit() was called.
QuitDriver(d, o, q) ==
    [driver |-> NoDriver,
     open   |-> IF d # NoDriver THEN o \ {d} ELSE o,
     raised |-> FALSE]

LaunchOutcomes == {"ok", "ctor_fail", "config_fail"}

\* _start_driver: inst is the instance uc.Chrome would create; launch says
\* whether uc.Chrome(...) or set_page_load_timeout(...) raises
StartDriver(d, o, inst, launch, q) ==
    IF launch = "ok"
    THEN [driver |-> inst, open |-> o \cup {inst}, raised |-> FALSE, started |-> TRUE]
    ELSE IF launch = "ctor_fail"
    THEN LET r == QuitDriver(d, o, q) IN
         [driver |-> r.driver, open |-> r.open, raised |-> r.raised, started |-> FALSE]
    ELSE LET r == QuitDriver(inst, o \cup {inst}, q) IN
         [driver |-> r.driver, open |-> r.open, raised |-> r.raised, started |-> FALSE]

(* ------------------------------ records -------------------------------- *)
Range(f) == {f[i] : i \in DOMAIN f}

\* RawReview.from_card: the record parsed from a card
FromCard(id, content) == [id |-> id, content |-> content, company_name |-> <<>>]

\* variant: the dict is rebound to a new one holding only v
DictSet_Rebind(d, v) == <<v>>

\* d[v.id] = v on an insertion-ordered dict
DictSet(d, v) ==
    IF \E i \in 1..Len(d) : d[i].id = v.id
    THEN [i \in 1..Len(d) |-> IF d[i].id = v.id THEN v ELSE d[i]]
    ELSE Append(d, v)

\* variant: the seen set is not consulted
AlreadySeen_NoSeenCheck(review_id, s) == review_id = NoId

\* "if not review_id or review_id in seen: continue"
AlreadySeen(review_id, s) == review_id = NoId \/ review_id \in s

\* variant: the company name is not attached to the record
NewRecord_NoBackfill(id, content, name) == FromCard(id, content)

\* the record built by lines 129-130
NewRecord(id, content, name) == [FromCard(id, content) EXCEPT !.company_name = name]

\* variant: a pass with new identifiers leaves the counter as it is
NextIdle_NoReset(idle, new) == IF new = 0 THEN idle + 1 ELSE idle

\* lines 142-145
NextIdle(idle, new) == IF new = 0 THEN idle + 1 ELSE 0

\* variant: the loop stops after the sixth quiet pass
LoopGoesOn_OneMore(idle) == idle <= IdleLimit

\* while idle_scrolls < 5
LoopGoesOn(idle) == idle < IdleLimit

\* line 104
SuccessResult(name, d) == [company_name |-> name, reviews |-> d]
\* line 113
ExhaustedResult(name) == [company_name |-> IF name # <<>> THEN name ELSE UnknownShort, reviews |-> <<>>]

(* --------------------------- click_reviews_tab ------------------------- *)
REVIEW_WORDS ==
    {<<"r", "e", "v", "i", "e", "w", "s">>, <<"r", "e", "v", "i", "e", "w">>,
     <<"r", "a", "t", "i", "n", "g", "s">>, <<"r", "a", "t", "i", "n", "g">>}

\* one aria-label selector per review word, then the jsaction selector
TabSelectorCount == Cardinality(REVIEW_WORDS) + 1

\* what an element matched by a selector shows: a visible text, or it has
\* gone stale when its text is read
TabTexts == {<<"R", "e", "v", "i", "e", "w", "s">>, <<"M", "e", "n", "u">>}
TabElements ==
    {[stale |-> FALSE, text |-> t] : t \in TabTexts} \cup {[stale |-> TRUE, text |-> <<>>]}

\* the pages: for each of k selectors the elements its wait returns (none:
\* the wait times out), with at most budget elements in all
RECURSIVE PagesFrom(_, _)
PagesFrom(k, budget) ==
    IF k = 0 THEN {<<>>}
    ELSE UNION {{<<es>> \o rest : rest \in PagesFrom(k - 1, budget - Len(es))} :
                   es \in SeqsUpTo(TabElements, budget)}

TabPages == PagesFrom(TabSelectorCount, MaxTabElements)

\* variant: the text is compared as it is shown
IsReviewsTab_CaseSensitive(e) ==
    ~e.stale /\ \E word \in REVIEW_WORDS : IsSubstring(word, e.text)

\* is_reviews_tab
IsReviewsTab(e) ==
    ~e.stale /\ \E word \in REVIEW_WORDS : IsSubstring(word, Lower(e.text))

\* the nested for loops of click_reviews_tab, from element j of selector i
\* on: the position of the element that is clicked, <<>> if there is none
RECURSIVE FirstTab(_, _, _)
FirstTab(page, i, j) ==
    IF i > Len(page) THEN <<>>
    ELSE IF j > Len(page[i]) THEN FirstTab(page, i + 1, 1)
    ELSE IF IsReviewsTab(page[i][j]) THEN <<i, j>>
    ELSE FirstTab(page, i, j + 1)

\* variant: the percentage written after the click is lower
ReviewsTabWrites_Low(clicked) == IF clicked THEN <<45, 30>> ELSE <<45>>

\* the percentages click_reviews_tab writes, in order
ReviewsTabWrites(clicked) == IF clicked THEN <<45, 60>> ELSE <<45>>

\* click_reviews_tab on a page; click is what element.click() does
ClickReviewsTabResult(page, click) ==
    LET at == FirstTab(page, 1, 1) IN
    [at |-> at, raised |-> (at = <<>> \/ click = "error")]

(* ------------------------------- set_sort ------------------------------ *)
Relevance == <<"r", "e", "l", "e", "v", "a", "n", "c", "e">>
SortMethods == {Relevance, <<"N", "E", "W", "E", "S", "T">>}
MenuTexts == {<<"N", "e", "w", "e", "s", "t">>, <<"T", "o", "p">>}
MenuItems ==
    {[stale |-> FALSE, text |-> t] : t \in MenuTexts} \cup {[stale |-> TRUE, text |-> <<>>]}
MenuLists == SeqsUpTo(MenuItems, MaxMenuItems)

\* the for loop over menu_items, from item i on
RECURSIVE ScanMenu(_, _, _)
ScanMenu(method, items, i) ==
    IF i > Len(items) THEN [kind |-> "none", at |-> 0]
    ELSE IF items[i].stale THEN [kind |-> "error", at |-> i]
    ELSE IF IsSubstring(Lower(method), Lower(items[i].text)) THEN [kind |-> "match", at |-> i]
    ELSE ScanMenu(method, items, i + 1)

\* what can go wrong in set_sort: waiting for the sort button times out,
\* clicking it raises, clicking the matching entry raises
SortFaults == {"none", "button_timeout", "button_click", "entry_click"}

\* variant: only a timeout is swallowed, as in dismiss_cookies
SetSortResult_TimeoutOnly(method, items, fault) ==
    IF method = Relevance THEN [raised |-> FALSE, how |-> "default", at |-> 0]
    ELSE IF fault = "button_timeout" THEN [raised |-> FALSE, how |-> "swallowed", at |-> 0]
    ELSE IF fault = "button_click" THEN [raised |-> TRUE, how |-> "raised", at |-> 0]
    ELSE LET m == ScanMenu(method, items, 1) IN
         IF m.kind = "none" THEN [raised |-> FALSE, how |-> "no_entry", at |-> 0]
         ELSE IF m.kind = "error" THEN [raised |-> TRUE, how |-> "raised", at |-> 0]
         ELSE IF fault = "entry_click" THEN [raised |-> TRUE, how |-> "raised", at |-> m.at]
         ELSE [raised |-> FALSE, how |-> "set", at |-> m.at]

\* set_sort for the requested method, with items the menu entries
SetSortResult(method, items, fault) ==
    IF method = Relevance THEN [raised |-> FALSE, how |-> "default", at |-> 0]
    ELSE IF fault \in {"button_timeout", "button_click"}
    THEN [raised |-> FALSE, how |-> "swallowed", at |-> 0]
    ELSE LET m == ScanMenu(method, items, 1) IN
         IF m.kind = "none" THEN [raised |-> FALSE, how |-> "no_entry", at |-> 0]
         ELSE IF m.kind = "error" THEN [raised |-> FALSE, how |-> "swallowed", at |-> 0]
         ELSE IF fault = "entry_click" THEN [raised |-> FALSE, how |-> "swallowed", at |-> m.at]
         ELSE [raised |-> FALSE, how |-> "set", at |-> m.at]

(* ------------------------------ panel ---------------------------------- *)
\* the card lists a freely re-rendering panel can show: each card carries
\* an identifier of Ids, or none
CardLists == SeqsUpTo(Ids \cup {NoId}, MaxCards)

\* what reading one card does: both reads succeed, the identifier read or
\* the parse raises StaleElementReferenceException, or one of them raises
\* another driver error
ReadOutcomes == {"ok", "stale_id", "stale_parse", "error_id", "error_parse"}

\* a panel that re-renders freely
FreePanel == [passes |-> <<>>, reads |-> ReadOutcomes]

(* ------------------------------ phases --------------------------------- *)
PhaseOrder ==
    <<"Launch", "Navigate", "IdentifyListing", "DismissInterstitial", "LocateReviewsEntry",
      "ApplySort", "LocateReviewsPanel", "ScrollExtractLoop">>

NoNote == [phase |-> "none", failed |-> FALSE]
PhaseNote(p, f) == [phase |-> p, failed |-> f]
LoopNote(f, dup, reset, stale) ==
    [phase |-> "ScrollExtractLoop", failed |-> f, dupDiffers |-> dup, resetAfterIdle |-> reset,
     staleRead |-> stale]

\* the percentages ws are written, if there is a sink
Logged(ws) == IF job_info.has THEN writes \o ws ELSE writes

(* ------------------------------- Init ---------------------------------- *)
(* ----------------------------- modules/config.py ----------------------- *)
\* of DEFAULT_CONFIG: one top-level setting and one key of each nested section
DEFAULT_CONFIG ==
    [sort_by |-> "relevance",
     mongodb |-> [uri |-> "mongodb://localhost:27017"],
     custom_params |-> [source |-> "Google Maps"]]

\* a key the user file does not set
Unset == "unset"
\* what is at config.yaml when load_config is called: no file, a file that
\* cannot be parsed, an empty file, or settings for some of the keys
ConfigFiles ==
    {[kind |-> k, sort_by |-> Unset, uri |-> Unset, source |-> Unset] :
        k \in {"missing", "broken", "empty"}}
        \cup [kind : {"ok"}, sort_by : {Unset, "newest", "highest"},
              uri : {Unset, "u1", "u2"}, source : {Unset, "s1", "s2"}]

\* load_config: the dict it returns and what DEFAULT_CONFIG holds afterwards.
\* config = DEFAULT_CONFIG.copy() copies the top level only, so config["mongodb"]
\* is the dict of DEFAULT_CONFIG and deep_update writes into that dict
LoadConfig(default, file) ==
    LET mongodb == [uri |-> IF file.uri # Unset THEN file.uri ELSE default.mongodb.uri]
        custom_params == [source |-> IF file.source # Unset THEN file.source
                                     ELSE default.custom_params.source] IN
    [config |-> [sort_by |-> IF file.sort_by # Unset THEN file.sort_by ELSE default.sort_by,
                 mongodb |-> mongodb, custom_params |-> custom_params],
     default |-> [default EXCEPT !.mongodb = mongodb, !.custom_params = custom_params]]

NoCall == [fn |-> "none"]

\* no utility has been called and no job has been created
NothingElse ==
    /\ call = NoCall
    /\ lang_cache = <<>>
    /\ jobs = <<>>
    /\ task = <<>>
    /\ scrapers = <<>>
    /\ chromes = 0
    /\ default_config = DEFAULT_CONFIG

InitCommon ==
    /\ pc = "attempt_top"
    /\ attempt = 0
    /\ driver = NoDriver
    /\ company_name = UnknownCompany
    /\ docs = <<>>
    /\ seen = {}
    /\ idle_scrolls = 0
    /\ new_reviews_in_pass = 0
    /\ cards = <<>>
    /\ result = [none |-> TRUE]
    /\ open = {}
    /\ launches = 0
    /\ failed = {}
    /\ backoffs = <<>>
    /\ outcome = "none"
    /\ firstRead = {}
    /\ attemptRecords = <<>>
    /\ lostIds = {}
    /\ quietPasses = 0
    /\ grewInPass = FALSE
    /\ passCount = 0
    /\ phases = <<>>
    /\ writes = <<>>
    /\ foundName = <<>>
    /\ note = NoNote
    /\ remaining = <<>>
    /\ NothingElse

Init ==
    /\ InitCommon
    /\ job_info = CallerSink
    /\ panelScript = FreePanel

(* --------------------------- control helpers --------------------------- *)
\* the locals of _scroll_and_extract_reviews go out of scope
DropLocals ==
    /\ docs' = <<>>
    /\ seen' = {}
    /\ idle_scrolls' = 0
    /\ new_reviews_in_pass' = 0
    /\ cards' = <<>>
    /\ firstRead' = {}
    /\ attemptRecords' = <<>>
    /\ quietPasses' = 0
    /\ grewInPass' = FALSE
    /\ passCount' = 0

\* an exception raised inside _scroll_and_extract_reviews and not caught there;
\* stale: it is a staleness error of a card
RaiseWith(stale) ==
    /\ pc' = "except"
    /\ lostIds' = lostIds \cup {r.id : r \in Range(docs)}
    /\ DropLocals
    /\ note' = LoopNote(TRUE, FALSE, FALSE, stale)
    /\ UNCHANGED <<supVars, company_name, job_info, panelScript, otherVars, remaining,
                   phases, writes, foundName>>

RaiseInLoop == RaiseWith(FALSE)

\* the for loop moves to its next iteration, or falls through to line 111
NextIteration ==
    IF attempt + 1 \in AttemptRange
    THEN pc' = "attempt_top" /\ attempt' = attempt + 1
    ELSE pc' = "exhausted" /\ attempt' = attempt

(* ------------------------------ actions -------------------------------- *)
\* lines 78-81 with _start_driver
Launch ==
    /\ pc = "attempt_top"
    /\ \E launch \in LaunchOutcomes, q \in QuitOutcomes :
         LET r == StartDriver(driver, open, attempt + 1, launch, q) IN
         /\ driver' = r.driver
         /\ open' = r.open
         /\ launches' = launches + 1
         /\ note' = PhaseNote("Launch", ~r.started)
         /\ IF r.raised
            THEN pc' = "raised" /\ UNCHANGED <<attempt, failed, backoffs>>
            ELSE IF r.started
            THEN pc' = "navigate" /\ UNCHANGED <<attempt, failed, backoffs>>
            ELSE /\ failed' = failed \cup {attempt + 1}
                 /\ backoffs' = Append(backoffs, [after |-> attempt + 1, units |-> BackoffSeconds])
                 /\ NextIteration
    /\ phases' = <<"Launch">>
    /\ writes' = <<>>
    /\ UNCHANGED <<company_name, job_info, progVars, loopHist, result, outcome, panelScript, otherVars,
                   remaining, lostIds, foundName>>

\* lines 84-91
Navigate ==
    /\ pc = "navigate"
    /\ job_info' = SetPercentage(job_info, 15)
    /\ writes' = Logged(<<15>>)
    /\ phases' = Append(phases, "Navigate")
    /\ \E o \in {"ok", "fail"} :
         /\ pc' = IF o = "ok" THEN "identify" ELSE "except"
         /\ note' = PhaseNote("Navigate", o = "fail")
    /\ UNCHANGED <<supVars, company_name, progVars, loopHist, panelScript, otherVars, remaining,
                   lostIds, foundName>>

\* line 93 with _get_company_name
IdentifyListing ==
    /\ pc = "identify"
    /\ \E sels \in [1..Len(COMPANY_NAME_SELECTORS) -> SelectorOutcomes], title \in TitleOutcomes :
         /\ company_name' = GetCompanyName(sels, title)
         /\ job_info' = CompanyNameProgress(job_info, sels)
         /\ writes' = Logged(CompanyNameWrites(sels))
         /\ foundName' = IF NameSource(sels, title) # "sentinel" /\ company_name' # <<>>
                         THEN company_name' ELSE foundName
         /\ note' = [phase |-> "IdentifyListing", failed |-> FALSE, sels |-> sels, title |-> title]
    /\ phases' = Append(phases, "IdentifyListing")
    /\ pc' = "cookies"
    /\ UNCHANGED <<supVars, progVars, loopHist, panelScript, otherVars, remaining, lostIds>>

\* line 94 with dismiss_cookies: only TimeoutException is swallowed
DismissCookies ==
    /\ pc = "cookies"
    /\ \E o \in {"clicked", "timeout", "click_error"} :
         /\ pc' = IF o = "click_error" THEN "except" ELSE "reviews_tab"
         /\ note' = PhaseNote("DismissInterstitial", o = "click_error")
    /\ phases' = Append(phases, "DismissInterstitial")
    /\ UNCHANGED <<supVars, company_name, job_info, progVars, loopHist, panelScript, otherVars,
                   remaining, lostIds, writes, foundName>>

\* line 95 with click_reviews_tab
ClickReviewsTab ==
    /\ pc = "reviews_tab"
    /\ \E page \in TabPages, click \in {"ok", "error"} :
         LET r == ClickReviewsTabResult(page, click)
             ws == ReviewsTabWrites(~r.raised)
             j1 == SetProgress(job_info, ws[1], <<"Looking for the reviews tab...">>) IN
         /\ job_info' = IF r.raised THEN j1
                        ELSE SetProgress(j1, ws[2], <<"Navigated to reviews section!">>)
         /\ writes' = Logged(ws)
         /\ pc' = IF r.raised THEN "except" ELSE "sort"
         /\ note' = [phase |-> "LocateReviewsEntry", failed |-> r.raised,
                     page |-> page, at |-> r.at]
    /\ phases' = Append(phases, "LocateReviewsEntry")
    /\ UNCHANGED <<supVars, company_name, progVars, loopHist, panelScript, otherVars, remaining,
                   lostIds, foundName>>

\* line 96 with set_sort
SetSort ==
    /\ pc = "sort"
    /\ \E method \in SortMethods, items \in MenuLists, fault \in SortFaults :
         LET r == SetSortResult(method, items, fault) IN
         /\ pc' = IF r.raised THEN "except" ELSE "pane"
         /\ note' = [phase |-> "ApplySort", failed |-> r.raised, how |-> r.how, at |-> r.at]
    /\ phases' = Append(phases, "ApplySort")
    /\ UNCHANGED <<supVars, company_name, job_info, progVars, loopHist, panelScript, otherVars,
                   remaining, lostIds, writes, foundName>>

\* lines 98-101 and 117-118: the panel is located and the loop's locals are set up
LocatePane ==
    /\ pc = "pane"
    /\ \E o \in {"ok", "timeout"} :
         /\ note' = PhaseNote("LocateReviewsPanel", o = "timeout")
         /\ IF o = "ok"
            THEN /\ pc' = "pass_top"
                 /\ DropLocals
                 /\ remaining' = panelScript.passes
                 /\ phases' = phases \o <<"LocateReviewsPanel", "ScrollExtractLoop">>
            ELSE /\ pc' = "except"
                 /\ phases' = Append(phases, "LocateReviewsPanel")
                 /\ UNCHANGED <<progVars, loopHist, remaining>>
    /\ UNCHANGED <<supVars, company_name, job_info, panelScript, otherVars, lostIds, writes, foundName>>

\* lines 120-122 for the card list cs, or find_elements raising
BeginPass(cs) ==
    /\ pc = "pass_top"
    /\ LoopGoesOn(idle_scrolls)
    /\ \E o \in {"ok", "error"} :
         IF o = "ok"
         THEN /\ pc' = "cards"
              /\ cards' = cs
              /\ new_reviews_in_pass' = 0
              /\ grewInPass' = FALSE
              /\ remaining' = IF remaining = <<>> THEN <<>> ELSE Tail(remaining)
              /\ note' = LoopNote(FALSE, FALSE, FALSE, FALSE)
              /\ UNCHANGED <<supVars, company_name, job_info, docs, seen, idle_scrolls,
                             panelScript, otherVars, firstRead, attemptRecords, lostIds, quietPasses, passCount,
                             phases, writes, foundName>>
         ELSE RaiseInLoop

\* the panel re-renders arbitrarily
EnumerateCards == \E cs \in CardLists : BeginPass(cs)

\* the panel follows its script and shows no card once the script is used up
EnumerateScripted == BeginPass(IF remaining = <<>> THEN <<>> ELSE Head(remaining))

\* the read of a card raises StaleElementReferenceException
IsStaleness(o) == o \in {"stale_id", "stale_parse"}

\* variant: only a card that is stale when its identifier is read is skipped
CaughtInLoop_IdOnly(o) == o = "stale_id"

\* line 139: what "except StaleElementReferenceException: continue" catches
CaughtInLoop(o) == IsStaleness(o)

\* variant: the identifier is marked as seen before the card is parsed
ReadCard_SeenBeforeParse ==
    /\ pc = "cards"
    /\ cards # <<>>
    /\ \E o \in panelScript.reads, c \in Contents :
         LET review_id == Head(cards)
             raw_review == NewRecord(review_id, c, company_name)
             skip(dup, stale) ==
                 /\ pc' = "cards"
                 /\ cards' = Tail(cards)
                 /\ note' = LoopNote(FALSE, dup, FALSE, stale)
                 /\ UNCHANGED <<supVars, company_name, job_info, docs, seen, idle_scrolls,
                                new_reviews_in_pass, panelScript, otherVars, remaining, loopHist,
                                lostIds, phases, writes, foundName>>
         IN
         IF o \in {"stale_id", "error_id"}
         THEN IF CaughtInLoop(o) THEN skip(FALSE, TRUE) ELSE RaiseWith(IsStaleness(o))
         ELSE IF AlreadySeen(review_id, seen)
              THEN skip(\E p \in firstRead : p[1] = review_id /\ p[2] # c, FALSE)
         ELSE IF o \in {"stale_parse", "error_parse"}
              THEN IF CaughtInLoop(o)
                   THEN /\ pc' = "cards"
                        /\ cards' = Tail(cards)
                        /\ seen' = seen \cup {review_id}
                        /\ note' = LoopNote(FALSE, FALSE, FALSE, TRUE)
                        /\ UNCHANGED <<supVars, company_name, job_info, docs, idle_scrolls,
                                       new_reviews_in_pass, panelScript, otherVars, remaining,
                                       loopHist, lostIds, phases, writes, foundName>>
                   ELSE RaiseWith(IsStaleness(o))
         ELSE /\ pc' = "cards"
              /\ cards' = Tail(cards)
              /\ docs' = DictSet(docs, raw_review)
              /\ seen' = seen \cup {raw_review.id}
              /\ new_reviews_in_pass' = new_reviews_in_pass + 1
              /\ job_info' = SetProgress(job_info, ScrollPercentage(Len(docs')),
                                         <<"Scraping reviews", Len(docs')>>)
              /\ writes' = Logged(<<ScrollPercentage(Len(docs'))>>)
              /\ firstRead' = IF \E p \in firstRead : p[1] = review_id
                              THEN firstRead ELSE firstRead \cup {<<review_id, c>>}
              /\ attemptRecords' = Append(attemptRecords, raw_review)
              /\ grewInPass' = (grewInPass \/ seen' # seen)
              /\ note' = LoopNote(FALSE, FALSE, FALSE, FALSE)
              /\ UNCHANGED <<supVars, company_name, idle_scrolls, panelScript, otherVars, remaining,
                             lostIds, quietPasses, passCount, phases, foundName>>

\* lines 123-140 for the next card of the pass: the card is rendered with
\* content c and reading it does o
ReadCard ==
    /\ pc = "cards"
    /\ cards # <<>>
    /\ \E o \in panelScript.reads, c \in Contents :
         LET review_id == Head(cards)
             raw_review == NewRecord(review_id, c, company_name)
             skip(dup, stale) ==
                 /\ pc' = "cards"
                 /\ cards' = Tail(cards)
                 /\ note' = LoopNote(FALSE, dup, FALSE, stale)
                 /\ UNCHANGED <<supVars, company_name, job_info, docs, seen, idle_scrolls,
                                new_reviews_in_pass, panelScript, otherVars, remaining, loopHist,
                                lostIds, phases, writes, foundName>>
         IN
         IF o \in {"stale_id", "error_id"}
         THEN IF CaughtInLoop(o) THEN skip(FALSE, TRUE) ELSE RaiseWith(IsStaleness(o))
         ELSE IF AlreadySeen(review_id, seen)
              THEN skip(\E p \in firstRead : p[1] = review_id /\ p[2] # c, FALSE)
         ELSE IF o \in {"stale_parse", "error_parse"}
              THEN IF CaughtInLoop(o) THEN skip(FALSE, TRUE) ELSE RaiseWith(IsStaleness(o))
         ELSE /\ pc' = "cards"
              /\ cards' = Tail(cards)
              /\ docs' = DictSet(docs, raw_review)
              /\ seen' = seen \cup {raw_review.id}
              /\ new_reviews_in_pass' = new_reviews_in_pass + 1
              /\ job_info' = SetProgress(job_info, ScrollPercentage(Len(docs')),
                                         <<"Scraping reviews", Len(docs')>>)
              /\ writes' = Logged(<<ScrollPercentage(Len(docs'))>>)
              /\ firstRead' = IF \E p \in firstRead : p[1] = review_id
                              THEN firstRead ELSE firstRead \cup {<<review_id, c>>}
              /\ attemptRecords' = Append(attemptRecords, raw_review)
              /\ grewInPass' = (grewInPass \/ seen' # seen)
              /\ note' = LoopNote(FALSE, FALSE, FALSE, FALSE)
              /\ UNCHANGED <<supVars, company_name, idle_scrolls, panelScript, otherVars, remaining,
                             lostIds, quietPasses, passCount, phases, foundName>>

\* lines 142-148: the pass is over, the idle counter is updated and the panel scrolled
EndPass ==
    /\ pc = "cards"
    /\ cards = <<>>
    /\ \E o \in {"ok", "error"} :
         IF o = "ok"
         THEN /\ pc' = "pass_top"
              /\ idle_scrolls' = NextIdle(idle_scrolls, new_reviews_in_pass)
              /\ quietPasses' = IF grewInPass THEN 0 ELSE quietPasses + 1
              /\ passCount' = passCount + 1
              /\ note' = LoopNote(FALSE, FALSE, grewInPass /\ quietPasses > 0, FALSE)
              /\ UNCHANGED <<supVars, company_name, job_info, docs, seen,
                             new_reviews_in_pass, cards, panelScript, otherVars, remaining,
                             firstRead, attemptRecords, lostIds, grewInPass,
                             phases, writes, foundName>>
         ELSE RaiseInLoop

\* variant: the result is built but not returned, the for loop goes on
ReturnSuccess_FallsThrough ==
    /\ pc = "pass_top"
    /\ ~LoopGoesOn(idle_scrolls)
    /\ result' = SuccessResult(company_name, docs)
    /\ NextIteration
    /\ docs' = <<>>
    /\ seen' = {}
    /\ idle_scrolls' = 0
    /\ new_reviews_in_pass' = 0
    /\ cards' = <<>>
    /\ note' = NoNote
    /\ UNCHANGED <<driver, open, launches, failed, backoffs, outcome, company_name, job_info,
                   panelScript, otherVars, remaining, loopHist, lostIds, phases, writes, foundName>>

\* lines 150 and 101-104: the loop is left and scrape returns the attempt's records
ReturnSuccess ==
    /\ pc = "pass_top"
    /\ ~LoopGoesOn(idle_scrolls)
    /\ result' = SuccessResult(company_name, docs)
    /\ outcome' = "success"
    /\ pc' = "done"
    /\ docs' = <<>>
    /\ seen' = {}
    /\ idle_scrolls' = 0
    /\ new_reviews_in_pass' = 0
    /\ cards' = <<>>
    /\ note' = NoNote
    /\ UNCHANGED <<attempt, driver, open, launches, failed, backoffs, company_name, job_info,
                   panelScript, otherVars, remaining, loopHist, lostIds, phases, writes, foundName>>

\* variant: the handler does not release the browser
HandleFailure_NoQuit ==
    /\ pc = "except"
    /\ failed' = failed \cup {attempt + 1}
    /\ backoffs' = IF attempt < 2
                   THEN Append(backoffs, [after |-> attempt + 1, units |-> BackoffSeconds])
                   ELSE backoffs
    /\ NextIteration
    /\ note' = NoNote
    /\ UNCHANGED <<driver, open, company_name, job_info, progVars, loopHist, result, outcome,
                   launches, panelScript, otherVars, remaining, lostIds, phases, writes, foundName>>

\* lines 106-109
HandleFailure ==
    /\ pc = "except"
    /\ \E q \in QuitOutcomes :
         LET r == QuitDriver(driver, open, q) IN
         /\ driver' = r.driver
         /\ open' = r.open
         /\ IF r.raised
            THEN pc' = "raised" /\ UNCHANGED <<attempt, failed, backoffs>>
            ELSE /\ failed' = failed \cup {attempt + 1}
                 /\ backoffs' = IF attempt < 2
                                THEN Append(backoffs, [after |-> attempt + 1, units |-> BackoffSeconds])
                                ELSE backoffs
                 /\ NextIteration
    /\ note' = NoNote
    /\ UNCHANGED <<company_name, job_info, progVars, loopHist, result, outcome, launches,
                   panelScript, otherVars, remaining, lostIds, phases, writes, foundName>>

\* lines 111-113
ReturnExhausted ==
    /\ pc = "exhausted"
    /\ result' = ExhaustedResult(company_name)
    /\ outcome' = "exhausted"
    /\ pc' = "done"
    /\ note' = NoNote
    /\ UNCHANGED <<attempt, driver, open, launches, failed, backoffs, company_name, job_info,
                   progVars, loopHist, panelScript, otherVars, remaining, lostIds, phases, writes,
                   foundName>>

Next ==
    \/ Launch
    \/ Navigate
    \/ IdentifyListing
    \/ DismissCookies
    \/ ClickReviewsTab
    \/ SetSort
    \/ LocatePane
    \/ EnumerateCards
    \/ ReadCard
    \/ EndPass
    \/ ReturnSuccess
    \/ HandleFailure
    \/ ReturnExhausted

Spec == Init /\ [][Next]_vars

TypeOK ==
    /\ pc \in {"attempt_top", "navigate", "identify", "cookies", "reviews_tab", "sort", "pane",
               "pass_top", "cards", "except", "exhausted", "done", "raised"}
    /\ attempt \in AttemptRange
    /\ idle_scrolls \in 0..IdleLimit

(* ----------------------- scripted-panel scenario ------------------------ *)
\* with A, B, C, D the identifiers 1, 2, 3, 4: pass 1 shows [A,B,C], pass 2
\* shows [C,D], later passes show nothing
ScenarioABCD == << <<1, 2, 3>>, <<3, 4>> >>

\* the scenario's panel when every card read succeeds
CleanABCD == [passes |-> ScenarioABCD, reads |-> {"ok"}]

Scripts ==
    {CleanABCD,
     [passes |-> << <<1>>, <<1>> >>, reads |-> ReadOutcomes],
     [passes |-> << <<>>, <<2, 1>> >>, reads |-> ReadOutcomes]}

InitScenario ==
    /\ InitCommon
    /\ job_info = CallerSink
    /\ panelScript \in Scripts

NextScenario ==
    \/ Launch
    \/ Navigate
    \/ IdentifyListing
    \/ DismissCookies
    \/ ClickReviewsTab
    \/ SetSort
    \/ LocatePane
    \/ EnumerateScripted
    \/ ReadCard
    \/ EndPass
    \/ ReturnSuccess
    \/ HandleFailure
    \/ ReturnExhausted

SpecScenario == InitScenario /\ [][NextScenario]_vars

(* ------------------------------- claims -------------------------------- *)
Returned == pc = "done"
InLoop == pc \in {"pass_top", "cards"}
RecordIds(recs) == [i \in 1..Len(recs) |-> recs[i].id]

\* C1: when every attempt has failed, exactly 3 attempts were started, the
\* result scrape returns has an empty review list, and nothing is raised.
C1_ExhaustedAfterThreeAttempts ==
    /\ pc # "raised"
    /\ (pc \in {"exhausted", "done"} /\ failed = 1..launches)
          => /\ launches = 3
             /\ Returned => (outcome = "exhausted" /\ result.reviews = <<>>)

C1_Witness ==
    Returned /\ outcome = "exhausted" /\ failed = {1, 2, 3} /\ Len(backoffs) = 2

\* C2: whatever fails in whatever phase, no fault escapes scrape, and what it
\* returns holds a company name and a review list.
C2_NothingEscapes ==
    /\ pc # "raised"
    /\ Returned => /\ DOMAIN result = {"company_name", "reviews"}
                   /\ DOMAIN result.reviews = 1..Len(result.reviews)

C2_Witness ==
    Returned /\ outcome = "success" /\ failed = {1, 2} /\ lostIds # {}

\* C3: when scrape returns no browser started by it is still open, and no
\* attempt starts while a browser of an earlier attempt is open.
C3_BrowserReleased ==
    /\ Returned => open = {}
    /\ pc = "attempt_top" => open = {}

\* C4: the attempt that completes the scroll/extract loop returns its result
\* at once and no attempt follows it; attempt k+1 starts only after attempts
\* 1..k failed; at most 3 attempts are started.
C4_ReturnOnFirstSuccess ==
    [][ /\ (pc = "pass_top" /\ ~(idle_scrolls < 5))
            => /\ pc' = "done"
               /\ result' = [company_name |-> company_name, reviews |-> docs]
               /\ launches' = launches
        /\ outcome = "success" => launches' = launches
        /\ launches' # launches
            => /\ launches' = launches + 1
               /\ failed = 1..launches
               /\ launches' <= 3
      ]_vars

C4_Witness ==
    Returned /\ outcome = "success" /\ failed = {1} /\ launches = 2 /\ result.reviews # <<>>

\* C5: the 5-unit backoff is taken after a failed attempt exactly when another
\* attempt follows: after the first and the second failed attempt, never
\* after the third.
C5_BackoffOnlyBetweenAttempts ==
    /\ \A i \in DOMAIN backoffs : backoffs[i].units = 5 /\ backoffs[i].after < 3
    /\ pc = "attempt_top" => [i \in DOMAIN backoffs |-> backoffs[i].after]
                                = [i \in 1..Cardinality(failed) |-> i]

\* the records the loop holds, or the ones a successful scrape returned
KeptRecords == IF Returned /\ outcome = "success" THEN result.reviews ELSE docs

\* C6: the loop keeps at most one record per identifier, and the record kept
\* is the one parsed from the first card read in full with that identifier,
\* whatever later cards with the same identifier show.
C6_FirstSeenKept ==
    (InLoop \/ (Returned /\ outcome = "success")) =>
        /\ \A i, j \in DOMAIN KeptRecords : KeptRecords[i].id = KeptRecords[j].id => i = j
        /\ {<<r.id, r.content>> : r \in Range(KeptRecords)} = firstRead

C6_Witness ==
    /\ pc = "cards" /\ Len(docs) = 2
    /\ note.phase = "ScrollExtractLoop" /\ note.dupDiffers

\* C7 as claimed: the records an attempt had collected when it failed are part
\* of the result scrape finally returns.
C7_CollectedRecordsSurvive ==
    Returned => \A id \in lostIds : \E i \in DOMAIN result.reviews : result.reviews[i].id = id

\* C7 as amended: records survive the skipped cards of their own attempt only;
\* the result holds exactly the records inserted by the attempt that completed
\* the loop, and none when every attempt failed.
C7_OnlySuccessfulAttemptKept ==
    /\ InLoop => docs = attemptRecords
    /\ Returned => result.reviews = IF outcome = "success" THEN attemptRecords ELSE <<>>

C7_Witness ==
    /\ Returned /\ outcome = "success"
    /\ result.reviews # <<>>
    /\ \E id \in lostIds : \A i \in DOMAIN result.reviews : result.reviews[i].id # id

\* the results a successful attempt returns for a listing without reviews
EmptySuccessResults ==
    {SuccessResult(GetCompanyName(sels, title), <<>>) :
        sels \in [1..Len(COMPANY_NAME_SELECTORS) -> SelectorOutcomes], title \in TitleOutcomes}

\* C8: the result returned after all attempts failed differs from every result
\* a successful attempt returns for a listing without reviews.
C8_ExhaustedDistinct ==
    (Returned /\ outcome = "exhausted") => result \notin EmptySuccessResults

\* C9: the loop stops exactly after the fifth pass in a row that found no new
\* identifier; a pass that finds one sets the idle counter back to zero.
C9_IdleStop ==
    /\ InLoop => idle_scrolls = quietPasses
    /\ quietPasses <= 5
    /\ pc = "cards" => quietPasses < 5
    /\ (Returned /\ outcome = "success") => quietPasses = 5

C9_Witness ==
    /\ pc = "pass_top" /\ idle_scrolls = 0
    /\ note.phase = "ScrollExtractLoop" /\ note.resetAfterIdle

\* C10: on the panel showing [A,B,C], then [C,D], then nothing, a successful
\* scrape whose card reads all succeed returns exactly the records of A, B, C
\* and D, each carrying the company name of the result.
C10_ScenarioABCD ==
    (Returned /\ outcome = "success" /\ panelScript = CleanABCD) =>
        /\ RecordIds(result.reviews) = <<1, 2, 3, 4>>
        /\ \A i \in DOMAIN result.reviews : result.reviews[i].company_name = result.company_name

C10_Witness ==
    /\ Returned /\ outcome = "success" /\ panelScript = CleanABCD
    /\ Len(result.reviews) = 4
    /\ \E i \in DOMAIN result.reviews : result.reviews[i].content # result.reviews[1].content

(* --------------------- the scroll loop, well under way ------------------ *)
\* the i-th record of a listing whose name was not found
ProgressRecord(i) == NewRecord(i, 1, UnknownCompany)

\* the first attempt is in a pass of the scroll loop, n records have been
\* inserted by earlier passes, and the pass shows one card not seen so far;
\* the caller passed a sink, or none
InitProgress ==
    \E n \in 0..MaxFound, sink \in {NoSink, CallerSink} :
        /\ pc = "cards"
        /\ attempt = 0
        /\ driver = 1
        /\ open = {1}
        /\ launches = 1
        /\ failed = {}
        /\ backoffs = <<>>
        /\ result = [none |-> TRUE]
        /\ outcome = "none"
        /\ company_name = UnknownCompany
        /\ foundName = <<>>
        /\ docs = [i \in 1..n |-> ProgressRecord(i)]
        /\ seen = 1..n
        /\ idle_scrolls = 0
        /\ new_reviews_in_pass = 0
        /\ cards = <<n + 1>>
        /\ firstRead = {<<i, 1>> : i \in 1..n}
        /\ attemptRecords = [i \in 1..n |-> ProgressRecord(i)]
        /\ quietPasses = 0
        /\ grewInPass = FALSE
        /\ passCount = 0
        /\ lostIds = {}
        /\ panelScript = FreePanel
        /\ remaining = <<>>
        /\ phases = PhaseOrder
        /\ writes = IF sink.has
                    THEN <<15, 25, 45, 60>> \o [i \in 1..n |-> ScrollPercentage(i)]
                    ELSE <<>>
        /\ job_info = IF n = 0
                      THEN SetProgress(sink, 60, <<"Navigated to reviews section!">>)
                      ELSE SetProgress(sink, ScrollPercentage(n), <<"Scraping reviews", n>>)
        /\ note = LoopNote(FALSE, FALSE, FALSE, FALSE)
        /\ NothingElse

\* the loop runs on; once the card is read the panel shows nothing more
NextProgress ==
    \/ EnumerateScripted
    \/ ReadCard
    \/ EndPass
    \/ ReturnSuccess

SpecProgress == InitProgress /\ [][NextProgress]_vars

(* --------------------------- claims, continued -------------------------- *)
\* C11: within one attempt the percentages written to the progress sink, in
\* the order they are written, never decrease, and the sink shows the last
\* of them.
C11_MonotonicProgress ==
    /\ \A i, j \in DOMAIN writes : i <= j => writes[i] <= writes[j]
    /\ (job_info.has /\ writes # <<>>) => job_info.percentage = writes[Len(writes)]

C11_Witness ==
    Returned /\ outcome = "success" /\ writes = <<15, 25, 40, 45, 60, 60, 60>>

\* C12: in the scroll/extract phase, once n >= 1 records are held the sink
\* shows 60 + floor(min(n/150, 1) * 30): a value of 60..90, and 90 from
\* n = 150 on.
C12_ScrollPercentage ==
    (InLoop /\ job_info.has /\ Len(docs) >= 1) =>
        LET n == Len(docs)
            p == job_info.percentage IN
        /\ p = 60 + (((IF n < 150 THEN n ELSE 150) * 30) \div 150)
        /\ p \in 60..90
        /\ n >= 150 => p = 90

C12_Witness ==
    InLoop /\ Len(docs) = 151 /\ job_info.percentage = 90 /\ cards = <<>>

IsPrefix(s, t) == Len(s) <= Len(t) /\ SubSeq(t, 1, Len(s)) = s

\* C13: the phases of an attempt are entered in the forced order, a phase
\* only after the phase before it has completed; a failure in Navigate,
\* LocateReviewsEntry or LocateReviewsPanel is followed by no further phase:
\* the browser is closed and the attempt is counted as failed.
C13_ForcedPhaseOrder ==
    [][ /\ IsPrefix(phases', PhaseOrder)
        /\ phases' # phases =>
              \/ phases' = <<"Launch">> /\ pc = "attempt_top"
              \/ IsPrefix(phases, phases') /\ ~note.failed /\ pc # "except"
        /\ (note'.failed /\ note'.phase \in {"Navigate", "LocateReviewsEntry", "LocateReviewsPanel"})
              => /\ pc' = "except"
                 /\ phases'[Len(phases')] = note'.phase
        /\ pc = "except"
              => /\ phases' = phases
                 /\ launches' = launches
                 /\ open' = {}
                 /\ driver' = NoDriver
                 /\ launches \in failed'
      ]_vars

C13_Witness ==
    /\ pc = "attempt_top" /\ failed = {1} /\ open = {}
    /\ phases = SubSeq(PhaseOrder, 1, 7)

\* C14: whatever the cookie control does (absent, never clickable, click
\* failing), DismissInterstitial is followed by LocateReviewsEntry.
C14_DismissNeverFails ==
    [][pc = "cookies" => pc' = "reviews_tab"]_vars

\* C15: whatever sort is requested and whatever fails while the sort control
\* is opened, the menu read or an entry clicked, ApplySort is followed by
\* LocateReviewsPanel and the attempt is not failed.
C15_SortNeverFails ==
    [][pc = "sort" => (pc' = "pane" /\ ~note'.failed /\ failed' = failed)]_vars

C15_Witness ==
    pc = "pane" /\ note.phase = "ApplySort" /\ note.how = "swallowed" /\ note.at = 1

\* the element shows a text that holds a review keyword, in any case
ShowsKeyword(e) ==
    ~e.stale /\ \E w \in REVIEW_WORDS :
        \E k \in 1..Len(e.text) :
            /\ k + Len(w) - 1 <= Len(e.text)
            /\ \A m \in 1..Len(w) : LowerChar(e.text[k + m - 1]) = w[m]

\* the positions <<selector, element>> of a page that show a keyword
KeywordPositions(page) ==
    UNION {{<<i, j>> : j \in {k \in DOMAIN page[i] : ShowsKeyword(page[i][k])}} : i \in DOMAIN page}

ComesBefore(p, q) == p[1] < q[1] \/ (p[1] = q[1] /\ p[2] < q[2])

YieldedText(s) == IF s.kind = "text" THEN Strip(s.text) ELSE <<>>

\* the name the page title gives
NameFromTitle(title) ==
    IF title.kind = "text" /\ Contains(title.text, TitleSuffix)
    THEN Strip(BeforeFirst(title.text, TitleSuffix))
    ELSE UnknownCompany

\* C17 as claimed: the name is the text of the first candidate that yields
\* a non-empty text; failing that the title without its suffix; failing that
\* the sentinel; the attempt goes on whatever fails.
C17_FirstTextWins ==
    note.phase = "IdentifyListing" =>
        LET sels == note.sels
            T == {i \in DOMAIN sels : YieldedText(sels[i]) # <<>>} IN
        /\ pc = "cookies"
        /\ company_name = IF T # {}
                          THEN YieldedText(sels[CHOOSE i \in T : \A k \in T : i <= k])
                          ELSE NameFromTitle(note.title)

\* C17 as amended: a candidate that raises anything but a timeout ends the
\* search, and the name is the sentinel; otherwise the name is the text of
\* the first candidate yielding a non-empty text, failing that the title
\* without its suffix, failing that the sentinel; the attempt goes on
\* whatever fails.
C17_ErrorEndsSearch ==
    note.phase = "IdentifyListing" =>
        LET sels == note.sels
            E == {i \in DOMAIN sels : sels[i].kind = "error" \/ YieldedText(sels[i]) # <<>>}
            first == CHOOSE i \in E : \A k \in E : i <= k IN
        /\ pc = "cookies"
        /\ company_name = IF E = {} THEN NameFromTitle(note.title)
                          ELSE IF sels[first].kind = "error" THEN UnknownCompany
                          ELSE YieldedText(sels[first])

C17_Witness ==
    /\ note.phase = "IdentifyListing" /\ pc = "cookies"
    /\ note.sels[1].kind = "error"
    /\ YieldedText(note.sels[2]) # <<>>
    /\ company_name = UnknownCompany

\* C18: an error raised while one card is read or parsed leaves the attempt
\* running: the pass goes on with the next card and the records held are kept.
C18_CardFailureIsLocal ==
    [][(pc = "cards" /\ cards # <<>>) => (pc' = "cards" /\ IsPrefix(docs, docs'))]_vars

\* C19: the result returned after three failed attempts carries the name an
\* attempt discovered, and a sentinel only when no attempt discovered one.
C19_ExhaustedCarriesFoundName ==
    (Returned /\ outcome = "exhausted") =>
        IF foundName # <<>>
        THEN result.company_name = foundName
        ELSE result.company_name \in {UnknownCompany, UnknownShort}

\* C29: at every point of the scroll/extract loop the seen identifiers are the
\* keys of the result map, also after a card read that failed midway.
C29_SeenIsKeySet ==
    InLoop => seen = {r.id : r \in Range(docs)}

\* a card has just been skipped for staleness while records are held and an
\* identifier is still unseen
C29_Witness ==
    /\ InLoop
    /\ note.phase = "ScrollExtractLoop"
    /\ note.staleRead
    /\ docs # <<>>
    /\ Cardinality(seen) < NumIds

\* C30: a card that raises a staleness error while its identifier is read or
\* while it is parsed is skipped without changing the result map, the seen set
\* or the count of new identifiers of the pass; a card with an unseen identifier
\* that is read without error is captured, in whatever pass that happens.
C30_StaleCardSkipped ==
    [][/\ (note'.phase = "ScrollExtractLoop" /\ note'.staleRead)
            => /\ pc' = "cards"
               /\ cards' = Tail(cards)
               /\ docs' = docs
               /\ seen' = seen
               /\ new_reviews_in_pass' = new_reviews_in_pass
       /\ (/\ pc = "cards" /\ cards # <<>> /\ pc' = "cards" /\ cards' = Tail(cards)
           /\ Head(cards) \notin seen
           /\ ~note'.staleRead)
            => /\ Head(cards) \in seen'
               /\ docs' # docs
               /\ docs'[Len(docs')].id = Head(cards)
               /\ new_reviews_in_pass' = new_reviews_in_pass + 1]_vars

\* card 1 was shown in two passes: the first pass ended without a new
\* identifier, the second pass has captured it
C30_Witness ==
    /\ panelScript.passes = <<<<1>>, <<1>>>>
    /\ pc = "cards"
    /\ remaining = <<>>
    /\ quietPasses = 1
    /\ new_reviews_in_pass = 1
    /\ seen = {1}
    /\ Len(docs) = 1

(* ============================ modules/utils.py ========================== *)
\* an argument of type "str | None"
None == [null |-> TRUE, text |-> <<>>]
Str(t) == [null |-> FALSE, text |-> t]
\* s or ""
OrEmpty(s) == IF s.null THEN <<>> ELSE s.text

DigitChars == <<"0", "1", "2", "3", "4", "5", "6", "7", "8", "9">>
IsDigit(c) == \E d \in DOMAIN DigitChars : DigitChars[d] = c
DigitValue(c) == (CHOOSE d \in DOMAIN DigitChars : DigitChars[d] = c) - 1

\* the digits matched by \d+ at the head of t
RECURSIVE TakeDigits(_)
TakeDigits(t) ==
    IF t = <<>> \/ ~IsDigit(Head(t)) THEN <<>> ELSE <<Head(t)>> \o TakeDigits(Tail(t))

\* re.search(r"\d+", t).group(), <<>> when there is no match
RECURSIVE SearchDigits(_)
SearchDigits(t) ==
    IF t = <<>> THEN <<>>
    ELSE IF IsDigit(Head(t)) THEN TakeDigits(t)
    ELSE SearchDigits(Tail(t))

\* int(d) for a string of digits
RECURSIVE ToInt(_)
ToInt(d) ==
    IF d = <<>> THEN 0 ELSE ToInt(SubSeq(d, 1, Len(d) - 1)) * 10 + DigitValue(d[Len(d)])

\* str(n) for n >= 0
RECURSIVE NumText(_)
NumText(n) ==
    IF n < 10 THEN <<DigitChars[n + 1]>> ELSE NumText(n \div 10) \o <<DigitChars[(n % 10) + 1]>>

(* ------------------------------- safe_int ------------------------------ *)
\* variant: the pattern is \d, one digit
SafeInt_OneDigit(s) ==
    LET m == SearchDigits(OrEmpty(s)) IN
    IF m # <<>> THEN ToInt(<<Head(m)>>) ELSE 0

\* safe_int (the lru_cache in front of it keeps results of a pure function)
SafeInt(s) ==
    LET m == SearchDigits(OrEmpty(s)) IN
    IF m # <<>> THEN ToInt(m) ELSE 0

IntChars == {"0", "1", "7", "a", " "}
IntInputs == {None} \cup {Str(t) : t \in SeqsUpTo(IntChars, MaxIntLen)}

CallSafeInt ==
    /\ call = NoCall
    /\ \E s \in IntInputs :
         call' = [fn |-> "safe_int", arg |-> s, ret |-> SafeInt(s), raised |-> FALSE]
    /\ UNCHANGED <<scraperVars, lang_cache, jobVars, default_config>>

(* --------------------------- parse_date_to_iso ------------------------- *)
AgoWord == <<"a", "g", "o">>

\* variant: a month of 31 days
UnitTable_Month31 ==
    <<[word |-> <<"m", "i", "n", "u", "t", "e">>, days |-> 0, seconds |-> 60],
      [word |-> <<"h", "o", "u", "r">>, days |-> 0, seconds |-> 3600],
      [word |-> <<"d", "a", "y">>, days |-> 1, seconds |-> 0],
      [word |-> <<"w", "e", "e", "k">>, days |-> 7, seconds |-> 0],
      [word |-> <<"m", "o", "n", "t", "h">>, days |-> 31, seconds |-> 0],
      [word |-> <<"y", "e", "a", "r">>, days |-> 365, seconds |-> 0]>>

\* the units in the order of the if/elif chain, with what timedelta is given
\* for num of them
UnitTable ==
    <<[word |-> <<"m", "i", "n", "u", "t", "e">>, days |-> 0, seconds |-> 60],
      [word |-> <<"h", "o", "u", "r">>, days |-> 0, seconds |-> 3600],
      [word |-> <<"d", "a", "y">>, days |-> 1, seconds |-> 0],
      [word |-> <<"w", "e", "e", "k">>, days |-> 7, seconds |-> 0],
      [word |-> <<"m", "o", "n", "t", "h">>, days |-> 30, seconds |-> 0],
      [word |-> <<"y", "e", "a", "r">>, days |-> 365, seconds |-> 0]>>

\* the first day a datetime can hold (0001-01-01), as a day number
MinDay == 1
SecondsPerDay == 86400

\* instants are [day, sec, us]: day number, second of the day, microsecond
\* now - timedelta(days, seconds)
MinusDelta(now, days, seconds) ==
    LET total == now.sec - seconds IN
    [day |-> now.day - days + (total \div SecondsPerDay),
     sec |-> total % SecondsPerDay,
     us  |-> now.us]

EmptyString == [kind |-> "empty", day |-> 0, sec |-> 0]
\* dt.replace(microsecond=0).isoformat()
IsoFormat(dt) == [kind |-> "iso", day |-> dt.day, sec |-> dt.sec]

\* the timedelta chosen by lines 91-96 for the lower-cased text t
RECURSIVE UnitDelta(_, _, _)
UnitDelta(t, num, i) ==
    IF i > Len(UnitTable) THEN [days |-> 0, seconds |-> 0]
    ELSE IF IsSubstring(UnitTable[i].word, t)
    THEN [days |-> UnitTable[i].days * num, seconds |-> UnitTable[i].seconds * num]
    ELSE UnitDelta(t, num, i + 1)

\* parse_date_to_iso, called at the instant now; a date before MinDay raises
\* OverflowError, which line 99 turns into ""
ParseDateToIso(date_str, now) ==
    IF OrEmpty(date_str) = <<>> THEN EmptyString
    ELSE LET t == Lower(date_str.text)
             m == SearchDigits(t)
             num == IF m # <<>> THEN ToInt(m) ELSE 1
             delta == IF IsSubstring(AgoWord, t)
                      THEN UnitDelta(t, num, 1)
                      ELSE [days |-> 0, seconds |-> 0]
             dt == MinusDelta(now, delta.days, delta.seconds) IN
         IF dt.day < MinDay THEN EmptyString ELSE IsoFormat(dt)

\* the instants a call can be made at: a day of 2026, start, middle and last
\* second of the day, with and without a fraction of a second
Nows == {[day |-> 739925, sec |-> sc, us |-> u] : sc \in {0, 43200, 86399}, u \in {0, 999999}}

\* the counts written in the texts
DateNums == (0..MaxDateNum) \cup {21, 3000}

\* "<n> <unit>[s] ago"
AgoPhrase(n, i, plural) ==
    NumText(n) \o <<" ">> \o UnitTable[i].word \o (IF plural THEN <<"s">> ELSE <<>>)
        \o <<" ">> \o AgoWord
AgoPhrases == {AgoPhrase(n, i, pl) : n \in DateNums, i \in DOMAIN UnitTable, pl \in BOOLEAN}

\* other texts: gibberish, a month and a year, a relative date without count,
\* without "ago", with another unit, in capitals
OtherDateTexts ==
    {<<"g", "i", "b", "b", "e", "r", "i", "s", "h">>,
     <<"j", "a", "n", "u", "a", "r", "y", " ", "2", "0", "2", "3">>,
     <<"a", " ", "w", "e", "e", "k", " ", "a", "g", "o">>,
     <<"3", " ", "w", "e", "e", "k", "s">>,
     <<"2", " ", "e", "o", "n", "s", " ", "a", "g", "o">>,
     <<"3", " ", "W", "e", "e", "k", "s", " ", "A", "g", "o">>}

DateInputs == {None, Str(<<>>)} \cup {Str(t) : t \in AgoPhrases \cup OtherDateTexts}

CallParseDate ==
    /\ call = NoCall
    /\ \E d \in DateInputs, now \in Nows :
         call' = [fn |-> "parse_date_to_iso", arg |-> d, now |-> now,
                  ret |-> ParseDateToIso(d, now), raised |-> FALSE]
    /\ UNCHANGED <<scraperVars, lang_cache, jobVars, default_config>>

(* ------------------- try_find, first_text, first_attr ------------------ *)
\* what reading an element gives: its text or attribute value (None for an
\* absent attribute), a staleness error, or another driver error
ElemValues == {<<>>, <<" ">>, <<"a">>, <<" ", "b", " ">>}
TextElems ==
    {[read |-> "ok", value |-> Str(t)] : t \in ElemValues}
        \cup {[read |-> r, value |-> None] : r \in {"stale", "error"}}
AttrElems == TextElems \cup {[read |-> "ok", value |-> None]}

\* what the driver's find call meets: nothing, a stale scope, another failure
FindFaults == {"none", "stale", "error"}

Gives(v) == [raised |-> FALSE, value |-> v]
Raised == [raised |-> TRUE, value |-> <<>>]

\* try_find: elems is what the selector matches under the scope
TryFind(elems, fault, all) ==
    IF fault = "error" THEN Raised                       \* not in the except clause
    ELSE IF fault = "stale" THEN Gives(<<>>)
    ELSE IF all THEN Gives(elems)                    \* find_elements
    ELSE IF elems = <<>> THEN Gives(<<>>)            \* NoSuchElementException
    ELSE Gives(<<Head(elems)>>)

\* variant: the value is taken as it is
Trimmed_NoStrip(e) == OrEmpty(e.value)

\* e.text.strip() / (e.get_attribute(attr) or "").strip()
Trimmed(e) == Strip(OrEmpty(e.value))

\* the for loop of first_text and first_attr over the elements es
RECURSIVE ScanFirst(_)
ScanFirst(es) ==
    IF es = <<>> THEN Gives(<<>>)
    ELSE IF Head(es).read = "stale" THEN ScanFirst(Tail(es))
    ELSE IF Head(es).read = "error" THEN Raised
    ELSE IF Trimmed(Head(es)) # <<>> THEN Gives(Trimmed(Head(es)))
    ELSE ScanFirst(Tail(es))

FirstText(elems, fault) ==
    LET found == TryFind(elems, fault, TRUE) IN
    IF found.raised THEN Raised ELSE ScanFirst(found.value)

FirstAttr(elems, fault) ==
    LET found == TryFind(elems, fault, TRUE) IN
    IF found.raised THEN Raised ELSE ScanFirst(found.value)

CallTryFind ==
    /\ call = NoCall
    /\ \E es \in SeqsUpTo(AttrElems, MaxElems), f \in FindFaults, all \in BOOLEAN :
         LET r == TryFind(es, f, all) IN
         call' = [fn |-> "try_find", elems |-> es, fault |-> f, all |-> all,
                  ret |-> r.value, raised |-> r.raised]
    /\ UNCHANGED <<scraperVars, lang_cache, jobVars, default_config>>

CallFirstText ==
    /\ call = NoCall
    /\ \E es \in SeqsUpTo(TextElems, MaxElems), f \in FindFaults :
         LET r == FirstText(es, f) IN
         call' = [fn |-> "first_text", elems |-> es, fault |-> f,
                  ret |-> r.value, raised |-> r.raised]
    /\ UNCHANGED <<scraperVars, lang_cache, jobVars, default_config>>

CallFirstAttr ==
    /\ call = NoCall
    /\ \E es \in SeqsUpTo(AttrElems, MaxElems), f \in FindFaults :
         LET r == FirstAttr(es, f) IN
         call' = [fn |-> "first_attr", elems |-> es, fault |-> f,
                  ret |-> r.value, raised |-> r.raised]
    /\ UNCHANGED <<scraperVars, lang_cache, jobVars, default_config>>

(* --------------------------- modules/s3_handler.py --------------------- *)
\* the keys of a config that the constructor looks at
S3Configs ==
    [has_use_s3 : BOOLEAN, use_s3 : BOOLEAN, has_bucket : BOOLEAN,
     bucket_name : {<<>>, <<"b">>}]

\* boto3.client and head_bucket: both work, the client cannot be made,
\* head_bucket raises ClientError, head_bucket raises something else
BotoOutcomes == {"ok", "client_fails", "head_client_error", "head_error"}

\* variant: the bucket name is not validated
S3HandlerEnabled_NoBucketCheck(config, boto) ==
    LET use == IF config.has_use_s3 THEN config.use_s3 ELSE FALSE IN
    IF ~use THEN use
    ELSE IF boto # "ok" THEN FALSE
    ELSE use

\* S3Handler.__init__: the value of self.enabled when it returns
S3HandlerEnabled(config, boto) ==
    LET use == IF config.has_use_s3 THEN config.use_s3 ELSE FALSE
        bucket_name == IF config.has_bucket THEN config.bucket_name ELSE <<>> IN
    IF ~use THEN use
    ELSE IF bucket_name = <<>> THEN FALSE
    ELSE IF boto # "ok" THEN FALSE
    ELSE use

NewS3Handler ==
    /\ call = NoCall
    /\ \E c \in S3Configs, b \in BotoOutcomes :
         call' = [fn |-> "S3Handler", config |-> c, boto |-> b,
                  enabled |-> S3HandlerEnabled(c, b), raised |-> FALSE]
    /\ UNCHANGED <<scraperVars, lang_cache, jobVars, default_config>>

(* ------------------------------ detect_lang ---------------------------- *)
\* texts are sequences of code points
HEB_CHARS == 1424..1535            \* U+0590 to U+05FF
THAI_CHARS == 3584..3711           \* U+0E00 to U+0E7F
LangCacheSize == 1024

\* pattern.search(txt)
Search(chars, txt) == \E i \in DOMAIN txt : txt[i] \in chars

\* variant: Thai is looked for first
DetectLangBody_ThaiFirst(txt) ==
    IF Search(THAI_CHARS, txt) THEN "th"
    ELSE IF Search(HEB_CHARS, txt) THEN "he"
    ELSE "en"

\* the function under the cache
DetectLangBody(txt) ==
    IF Search(HEB_CHARS, txt) THEN "he"
    ELSE IF Search(THAI_CHARS, txt) THEN "th"
    ELSE "en"

\* lru_cache: entries from least to most recently used
CacheIndex(cache, txt) == {i \in DOMAIN cache : cache[i].txt = txt}
Without(cache, i) == [k \in 1..(Len(cache) - 1) |-> IF k < i THEN cache[k] ELSE cache[k + 1]]
CacheHit(cache, i) == Append(Without(cache, i), cache[i])
CacheMiss(cache, txt, ans) ==
    Append(IF Len(cache) >= LangCacheSize THEN Tail(cache) ELSE cache,
           [txt |-> txt, ans |-> ans])

\* a Latin letter, and the code points at and around the ends of both ranges
LangPoints == {65, 1423, 1424, 1535, 1536, 3583, 3584, 3711, 3712}
LangTexts ==
    {<<>>} \cup {<<c>> : c \in LangPoints}
           \cup {<<a, b>> : a \in {65, 1424, 3584}, b \in {65, 1535, 3711}}

\* detect_lang(txt)
CallDetectLang ==
    /\ call = NoCall
    /\ \E txt \in LangTexts :
         LET at == CacheIndex(lang_cache, txt) IN
         IF at # {}
         THEN LET i == CHOOSE k \in at : TRUE IN
              /\ lang_cache' = CacheHit(lang_cache, i)
              /\ call' = [fn |-> "detect_lang", arg |-> txt, ret |-> lang_cache[i].ans,
                          hit |-> TRUE, raised |-> FALSE]
         ELSE /\ Len(lang_cache) < MaxLangTexts
              /\ lang_cache' = CacheMiss(lang_cache, txt, DetectLangBody(txt))
              /\ call' = [fn |-> "detect_lang", arg |-> txt, ret |-> DetectLangBody(txt),
                          hit |-> FALSE, raised |-> FALSE]
    /\ UNCHANGED <<scraperVars, jobVars, default_config>>

(* ------------------------ the helpers, called alone -------------------- *)
\* the caller takes the result: the frame of the call is gone
CallReturns ==
    /\ call # NoCall
    /\ call' = NoCall
    /\ UNCHANGED <<scraperVars, lang_cache, jobVars, default_config>>

InitUtils == InitCommon /\ job_info = CallerSink /\ panelScript = FreePanel

NextUtils ==
    \/ CallSafeInt
    \/ CallParseDate
    \/ CallTryFind
    \/ CallFirstText
    \/ CallFirstAttr
    \/ NewS3Handler
    \/ CallReturns

SpecUtils == InitUtils /\ [][NextUtils]_vars

\* load_config() with the file found at config.yaml
CallLoadConfig ==
    /\ call = NoCall
    /\ \E file \in ConfigFiles :
         LET r == LoadConfig(default_config, file) IN
         /\ default_config' = r.default
         /\ call' = [fn |-> "load_config", file |-> file, ret |-> r.config, raised |-> FALSE]
    /\ UNCHANGED <<scraperVars, lang_cache, jobVars>>

NextConfig == CallLoadConfig \/ CallReturns
SpecConfig == InitUtils /\ [][NextConfig]_vars

NextLang == CallDetectLang \/ CallReturns
SpecLang == InitUtils /\ [][NextLang]_vars

(* ================================ app_backend.py ======================== *)
\* jobs is a sequence: job ids are 1, 2, ... in the order detect_endpoint
\* draws them (uuid4 gives a new id each time)
NoResult == [kind |-> "none", company_name |-> <<>>, reviews |-> <<>>]
Report(name, predictions) == [kind |-> "report", company_name |-> name, reviews |-> predictions]
ErrorText == [kind |-> "error", company_name |-> <<>>, reviews |-> <<>>]
Absent == "absent"

\* lines 96-100
PendingEntry ==
    [status |-> "pending", percentage |-> 0, message |-> "Job is queued...",
     result |-> NoResult, s3_url |-> Absent, s3_key |-> Absent]

\* the locals of a thread started for job_id at lines 101-102
NewThread(job_id) ==
    [job_id |-> job_id, pc |-> "l28", scraper |-> 0, scraped_data |-> NoResult,
     final_result |-> NoResult, s3_url |-> Absent, error |-> FALSE]

\* GoogleReviewsScraper.__init__
NewScraper == [driver |-> NoDriver, company_name |-> UnknownCompany]

\* lines 50-51: one prediction per review
Predictions(k) == [1..k -> {"Fake", "Genuine"}]

\* variant: the thread looks its entry up as the newest job
JobInfoKey_Newest(t) == Len(jobs)

\* line 28: the entry job_info refers to
JobInfoKey(t) == task[t].job_id

\* line 36: the object bound to the local scraper of thread t
ScraperFor(t) == Len(scrapers) + 1

\* thread t moves from one line to another, writing entry to its job_info and
\* locals to its frame
ThreadStep(t, from, to, entry, locals) ==
    /\ task[t].pc = from
    /\ jobs' = [jobs EXCEPT ![JobInfoKey(t)] = entry]
    /\ task' = [task EXCEPT ![t] = [locals EXCEPT !.pc = to]]
    /\ UNCHANGED <<scraperVars, call, lang_cache, default_config>>

JobInfo(t) == jobs[JobInfoKey(t)]

\* detect_endpoint for a request with a usable url (any other request is
\* answered 400 at lines 92-93 and changes nothing)
Detect ==
    /\ Len(jobs) < NumJobs
    /\ jobs' = Append(jobs, PendingEntry)
    /\ task' = Append(task, NewThread(Len(jobs) + 1))
    /\ UNCHANGED <<scraperVars, call, lang_cache, scrapers, chromes, default_config>>

\* lines 28-29: job_info is bound and load_config() is called
StartTask(t) ==
    /\ task[t].pc = "l28"
    /\ \E file \in ConfigFiles :
         default_config' = LoadConfig(default_config, file).default
    /\ jobs' = [jobs EXCEPT ![JobInfoKey(t)] = JobInfo(t)]
    /\ task' = [task EXCEPT ![t].pc = "l32"]
    /\ UNCHANGED <<scraperVars, call, lang_cache, scrapers, chromes>>

\* line 32
SetRunning(t) ==
    /\ ThreadStep(t, "l32", "l33", [JobInfo(t) EXCEPT !.status = "running"], task[t])
    /\ UNCHANGED <<scrapers, chromes>>

\* line 33
SetFirstPercentage(t) ==
    /\ ThreadStep(t, "l33", "l34", [JobInfo(t) EXCEPT !.percentage = 5], task[t])
    /\ UNCHANGED <<scrapers, chromes>>

\* line 34
SetFirstMessage(t) ==
    /\ ThreadStep(t, "l34", "l36",
                  [JobInfo(t) EXCEPT !.message = "Initializing scraper..."], task[t])
    /\ UNCHANGED <<scrapers, chromes>>

\* lines 35-37 up to the first write of scrape (scraper.py lines 82-84): the
\* thread creates its scraper, which starts a browser and reports 15 percent
CreateScraper(t) ==
    /\ ThreadStep(t, "l36", "l37s", [JobInfo(t) EXCEPT !.percentage = 15],
                  [task[t] EXCEPT !.scraper = ScraperFor(t)])
    /\ scrapers' = Append(scrapers, [NewScraper EXCEPT !.driver = chromes + 1])
    /\ chromes' = chromes + 1

\* line 37, inside scrape: the session reports progress and finds the name
ScrapeProgress(t) ==
    /\ ThreadStep(t, "l37s", "l37r",
                  [JobInfo(t) EXCEPT !.percentage = 25,
                                     !.message = "Searching for company name..."],
                  task[t])
    /\ scrapers' = [scrapers EXCEPT ![task[t].scraper].company_name = <<"a">>]
    /\ UNCHANGED chromes

\* line 37, scrape returns: with the reviews found and the browser left as it
\* is (line 104), or with no review after the last attempt's browser was quit
\* (lines 108 and 113); the data carries the name held by the thread's scraper
ScrapeReturn(t) ==
    /\ task[t].pc = "l37r"
    /\ \E success \in BOOLEAN, k \in 0..MaxJobReviews :
         /\ ~success => k = 0
         /\ ThreadStep(t, "l37r", "l43", JobInfo(t),
                       [task[t] EXCEPT !.scraped_data =
                           Report(scrapers[task[t].scraper].company_name,
                                  [i \in 1..k |-> "review"])])
         /\ scrapers' = IF success THEN scrapers
                        ELSE [scrapers EXCEPT ![task[t].scraper].driver = NoDriver]
    /\ UNCHANGED chromes

\* line 43
SetAnalyzing(t) ==
    /\ ThreadStep(t, "l43", "l44", [JobInfo(t) EXCEPT !.status = "analyzing"], task[t])
    /\ UNCHANGED <<scrapers, chromes>>

\* line 44
SetAnalyzingPercentage(t) ==
    /\ ThreadStep(t, "l44", "l45", [JobInfo(t) EXCEPT !.percentage = 95], task[t])
    /\ UNCHANGED <<scrapers, chromes>>

\* line 45
SetAnalyzingMessage(t) ==
    /\ ThreadStep(t, "l45", "l48",
                  [JobInfo(t) EXCEPT !.message = "Scraping complete! Analyzing reviews..."],
                  task[t])
    /\ UNCHANGED <<scrapers, chromes>>

\* variant: the report is built and kept in the local only
StoreResult_LocalOnly(t) ==
    /\ \E ps \in Predictions(Len(task[t].scraped_data.reviews)) :
         LET final_result == Report(task[t].scraped_data.company_name, ps) IN
         ThreadStep(t, "l48", "l60", JobInfo(t),
                    [task[t] EXCEPT !.final_result = final_result])
    /\ UNCHANGED <<scrapers, chromes>>

\* lines 48-57: the predictions are drawn and the report is stored
StoreResult(t) ==
    /\ \E ps \in Predictions(Len(task[t].scraped_data.reviews)) :
         LET final_result == Report(task[t].scraped_data.company_name, ps) IN
         ThreadStep(t, "l48", "l60", [JobInfo(t) EXCEPT !.result = final_result],
                    [task[t] EXCEPT !.final_result = final_result])
    /\ UNCHANGED <<scrapers, chromes>>

\* lines 60-74: the handler is disabled, or the report is written and the
\* upload gives a url or None, or writing the file raises
S3Stage(t) ==
    /\ \E o \in {"disabled", "uploaded", "not_uploaded", "raised"} :
         ThreadStep(t, "l60",
                    CASE o = "disabled" -> "l80" [] o = "uploaded" -> "l75"
                      [] o = "not_uploaded" -> "l78" [] o = "raised" -> "l86",
                    JobInfo(t),
                    [task[t] EXCEPT !.s3_url = IF o = "uploaded" THEN "url" ELSE Absent,
                                    !.error = (o = "raised")])
    /\ UNCHANGED <<scrapers, chromes>>

\* line 75
StoreS3Url(t) ==
    /\ ThreadStep(t, "l75", "l76", [JobInfo(t) EXCEPT !.s3_url = task[t].s3_url], task[t])
    /\ UNCHANGED <<scrapers, chromes>>

\* line 76
StoreS3Key(t) ==
    /\ ThreadStep(t, "l76", "l78", [JobInfo(t) EXCEPT !.s3_key = "key"], task[t])
    /\ UNCHANGED <<scrapers, chromes>>

\* line 78: the local file is removed, or removing it raises
RemoveLocalFile(t) ==
    /\ \E raised \in BOOLEAN :
         ThreadStep(t, "l78", IF raised THEN "l86" ELSE "l80", JobInfo(t),
                    [task[t] EXCEPT !.error = raised])
    /\ UNCHANGED <<scrapers, chromes>>

\* line 80
SetComplete(t) ==
    /\ ThreadStep(t, "l80", "l81", [JobInfo(t) EXCEPT !.status = "complete"], task[t])
    /\ UNCHANGED <<scrapers, chromes>>

\* line 81
SetFullPercentage(t) ==
    /\ ThreadStep(t, "l81", "l82", [JobInfo(t) EXCEPT !.percentage = 100], task[t])
    /\ UNCHANGED <<scrapers, chromes>>

\* line 82
SetDoneMessage(t) ==
    /\ ThreadStep(t, "l82", "done", [JobInfo(t) EXCEPT !.message = "Done!"], task[t])
    /\ UNCHANGED <<scrapers, chromes>>

\* variant: the except clause logs the error and leaves the status as it is
SetError_KeepsStatus(t) ==
    /\ ThreadStep(t, "l86", "l87", JobInfo(t), task[t])
    /\ UNCHANGED <<scrapers, chromes>>

\* line 86
SetError(t) ==
    /\ ThreadStep(t, "l86", "l87", [JobInfo(t) EXCEPT !.status = "error"], task[t])
    /\ UNCHANGED <<scrapers, chromes>>

\* line 87
StoreError(t) ==
    /\ ThreadStep(t, "l87", "done", [JobInfo(t) EXCEPT !.result = ErrorText], task[t])
    /\ UNCHANGED <<scrapers, chromes>>

\* one step of one thread
RunThread ==
    \E t \in DOMAIN task :
        \/ StartTask(t)
        \/ SetRunning(t)
        \/ SetFirstPercentage(t)
        \/ SetFirstMessage(t)
        \/ CreateScraper(t)
        \/ ScrapeProgress(t)
        \/ ScrapeReturn(t)
        \/ SetAnalyzing(t)
        \/ SetAnalyzingPercentage(t)
        \/ SetAnalyzingMessage(t)
        \/ StoreResult(t)
        \/ S3Stage(t)
        \/ StoreS3Url(t)
        \/ StoreS3Key(t)
        \/ RemoveLocalFile(t)
        \/ SetComplete(t)
        \/ SetFullPercentage(t)
        \/ SetDoneMessage(t)
        \/ SetError(t)
        \/ StoreError(t)

\* get_results_endpoint: a status poll for job id k; jsonify copies the entry
\* in one piece
Poll ==
    /\ \E k \in 1..NumJobs :
         call' = IF k \in DOMAIN jobs
                 THEN [fn |-> "get_results_endpoint", job |-> k, code |-> 200, seen |-> jobs[k]]
                 ELSE [fn |-> "get_results_endpoint", job |-> k, code |-> 404]
    /\ UNCHANGED <<scraperVars, lang_cache, jobVars, default_config>>

NextJobs == Detect \/ RunThread \/ Poll
SpecJobs == InitUtils /\ [][NextJobs]_vars

(* ------------------------- claims on the helpers ----------------------- *)
RECURSIVE Pow10(_)
Pow10(k) == IF k = 0 THEN 1 ELSE 10 * Pow10(k - 1)

\* the number written by the digits t[i..j]
RECURSIVE DecimalValue(_, _, _)
DecimalValue(t, i, j) ==
    IF i > j THEN 0 ELSE DigitValue(t[i]) * Pow10(j - i) + DecimalValue(t, i + 1, j)

\* the text has the form "<n> <unit> ago" (unit in singular or plural, any case)
IsAgoPhrase(d) == ~d.null /\ Lower(d.text) \in AgoPhrases

\* C22: parse_date_to_iso returns "" for every input that is not of the form
\* "<integer> <unit> ago", and never raises.
C22_NonMatchingGivesEmpty ==
    call.fn = "parse_date_to_iso" =>
        /\ ~call.raised
        /\ ~IsAgoPhrase(call.arg) => call.ret = EmptyString

\* the durations the specification gives for one unit, as days and seconds
ClaimedDuration ==
    [minute |-> [days |-> 0, seconds |-> 60], hour |-> [days |-> 0, seconds |-> 3600],
     day |-> [days |-> 1, seconds |-> 0], week |-> [days |-> 7, seconds |-> 0],
     month |-> [days |-> 30, seconds |-> 0], year |-> [days |-> 365, seconds |-> 0]]
ClaimedUnits == <<"minute", "hour", "day", "week", "month", "year">>

\* now minus n times the unit's duration, in whole seconds
ClaimedInstant(now, n, u) ==
    LET dur == ClaimedDuration[ClaimedUnits[u]]
        dt == MinusDelta(now, n * dur.days, n * dur.seconds) IN
    [kind |-> "iso", day |-> dt.day, sec |-> dt.sec]

\* C23 as stated: for "<n> <unit> ago" the result is now minus n times the
\* unit's duration, truncated to whole seconds.
C23_NowMinusDuration ==
    call.fn = "parse_date_to_iso" =>
        \A n \in DateNums, u \in DOMAIN ClaimedUnits, pl \in BOOLEAN :
            (~call.arg.null /\ call.arg.text = AgoPhrase(n, u, pl))
                => call.ret = ClaimedInstant(call.now, n, u)

\* C23 amended: the result is that instant when it is not before the first
\* representable day, and "" when it is.
C23_NowMinusDurationWhenRepresentable ==
    call.fn = "parse_date_to_iso" =>
        \A n \in DateNums, u \in DOMAIN ClaimedUnits, pl \in BOOLEAN :
            (~call.arg.null /\ call.arg.text = AgoPhrase(n, u, pl))
                => LET want == ClaimedInstant(call.now, n, u) IN
                   IF want.day >= MinDay THEN call.ret = want
                   ELSE call.ret = EmptyString

\* "3 weeks ago" asked in the middle of a second has given now minus 21 days
C23_Witness ==
    /\ call.fn = "parse_date_to_iso"
    /\ call.arg = Str(AgoPhrase(3, 4, TRUE))
    /\ call.now.us # 0
    /\ call.ret = [kind |-> "iso", day |-> call.now.day - 21, sec |-> call.now.sec]

\* C24: safe_int returns the value of the leftmost maximal run of digits, 0 when
\* there is no digit or the input is empty or null, and does not raise.
C24_SafeIntFirstRun ==
    call.fn = "safe_int" =>
        LET t == OrEmpty(call.arg)
            D == {i \in DOMAIN t : IsDigit(t[i])} IN
        /\ ~call.raised
        /\ D = {} => call.ret = 0
        /\ D # {} =>
             LET i == CHOOSE k \in D : \A m \in D : k <= m
                 j == CHOOSE k \in i..Len(t) :
                          (\A m \in i..k : m \in D) /\ (k + 1) \notin D IN
             call.ret = DecimalValue(t, i, j)

\* a text with two runs of digits has given the first one
C24_Witness ==
    /\ call.fn = "safe_int"
    /\ call.arg = Str(<<"1", "a", "7">>)
    /\ call.ret = 1

\* C26: try_find never propagates an error; a selector that matches nothing
\* and a failing driver call both give the empty sequence.
C26_TryFindNeverRaises ==
    call.fn = "try_find" =>
        /\ ~call.raised
        /\ call.fault # "none" => call.ret = <<>>

\* the value of an element once trimmed is not empty
Blank(v) == \A i \in DOMAIN v : v[i] = " "
Qualifies(e) == e.read = "ok" /\ ~e.value.null /\ ~Blank(e.value.text)
\* r is v without the blanks around it
IsTrimOf(r, v) ==
    /\ r # <<>> /\ r[1] # " " /\ r[Len(r)] # " "
    /\ \E a \in 0..Len(v) :
         /\ a + Len(r) <= Len(v)
         /\ SubSeq(v, a + 1, a + Len(r)) = r
         /\ Blank(SubSeq(v, 1, a))
         /\ Blank(SubSeq(v, a + Len(r) + 1, Len(v)))

Hebrew(txt) == {i \in DOMAIN txt : 1424 <= txt[i] /\ txt[i] <= 1535} # {}
Thai(txt) == {i \in DOMAIN txt : 3584 <= txt[i] /\ txt[i] <= 3711} # {}
LangOf(txt) == IF Hebrew(txt) THEN "he" ELSE IF Thai(txt) THEN "th" ELSE "en"

\* C25: detect_lang answers "he" for a text with a Hebrew code point, "th" for a
\* text with a Thai one and no Hebrew one, "en" otherwise, on every call and
\* whatever was asked before (the cache holds only such answers).
C25_LangByCodePoints ==
    /\ call.fn = "detect_lang" => call.ret = LangOf(call.arg) /\ ~call.raised
    /\ \A i \in DOMAIN lang_cache : lang_cache[i].ans = LangOf(lang_cache[i].txt)

\* a text with a Thai and a Hebrew code point, asked again after another text,
\* has been answered "he" from the cache
C25_Witness ==
    /\ call.fn = "detect_lang"
    /\ call.hit
    /\ call.arg = <<3584, 1535>>
    /\ call.ret = "he"
    /\ Len(lang_cache) = 2

(* --------------------------- claims on the jobs ------------------------ *)
\* the entry a thread with the locals l leaves when it runs alone
AloneEntry(l) ==
    IF l.error
    THEN [status |-> "error", percentage |-> 95,
          message |-> "Scraping complete! Analyzing reviews...",
          result |-> ErrorText,
          s3_url |-> l.s3_url, s3_key |-> IF l.s3_url = Absent THEN Absent ELSE "key"]
    ELSE [status |-> "complete", percentage |-> 100, message |-> "Done!",
          result |-> l.final_result,
          s3_url |-> l.s3_url, s3_key |-> IF l.s3_url = Absent THEN Absent ELSE "key"]

\* thread t takes the step
Steps(t) == task'[t].pc # task[t].pc

\* C21: in every interleaving of the job threads, a job entry is written only
\* by the thread of that job id, a scraper and its browser are used only by the
\* thread that created the scraper, no two threads hold the same scraper or
\* browser, and a finished job's status, progress and result are those its own
\* thread computed.
C21_JobsIndependent ==
    [][/\ \A k \in DOMAIN jobs :
            jobs'[k] # jobs[k]
                => \E t \in DOMAIN task :
                       /\ task[t].job_id = k
                       /\ Steps(t)
                       /\ \A u \in DOMAIN task \ {t} : task'[u] = task[u]
       /\ \A i \in DOMAIN scrapers :
            scrapers'[i] # scrapers[i]
                => \E t \in DOMAIN task : task[t].scraper = i /\ Steps(t)
       /\ \A t, u \in DOMAIN task' :
            (t # u /\ task'[t].scraper # 0) => task'[t].scraper # task'[u].scraper
       /\ \A i, j \in DOMAIN scrapers' :
            (i # j /\ scrapers'[i].driver # NoDriver)
                => scrapers'[i].driver # scrapers'[j].driver
       /\ \A t \in DOMAIN task' :
            task'[t].pc = "done" => jobs'[task'[t].job_id] = AloneEntry(task'[t])]_vars

\* two jobs have run interleaved (the second job's thread created its scraper
\* first): the first is complete with its report, the second ended in error
C21_Witness ==
    /\ Len(task) = 2
    /\ task[1].pc = "done" /\ task[2].pc = "done"
    /\ task[2].scraper = 1 /\ task[1].scraper = 2
    /\ jobs[1].status = "complete" /\ jobs[1].result = Report(<<"a">>, <<>>)
    /\ jobs[2].status = "error" /\ jobs[2].result = ErrorText

\* the moves of a job's status
StatusMoves ==
    {<<"pending", "running">>, <<"running", "analyzing">>, <<"analyzing", "complete">>,
     <<"running", "error">>, <<"analyzing", "error">>}

\* C33: a job's status changes only along pending -> running -> analyzing ->
\* complete, or from running or analyzing to error; complete and error are
\* never left; a job whose thread has run to its end is complete or error.
C33_StatusForwardOnly ==
    [][/\ \A k \in DOMAIN jobs :
            jobs'[k].status # jobs[k].status
                => <<jobs[k].status, jobs'[k].status>> \in StatusMoves
       /\ \A t \in DOMAIN task' :
            task'[t].pc = "done" => jobs'[task'[t].job_id].status \in {"complete", "error"}]_vars

\* the first job ended in error while the second is still running
C33_Witness ==
    /\ Len(task) = 2
    /\ task[1].pc = "done"
    /\ jobs[1].status = "error"
    /\ jobs[2].status = "running"

\* a poll that found the job
Polled == call.fn = "get_results_endpoint" /\ call.code = 200

\* C34: a poll that sees status 'complete' sees the result set to the final
\* report of the job, not None and not an error string.
C34_CompleteShowsReport ==
    (Polled /\ call.seen.status = "complete")
        => /\ call.seen.result.kind = "report"
           /\ call.seen.result = task[call.job].final_result

\* the poll came between lines 80 and 81 and saw the report
C34_Witness ==
    /\ Polled
    /\ call.seen.status = "complete"
    /\ call.seen.percentage = 95
    /\ call.seen.result = Report(<<"a">>, <<>>)
    /\ task[call.job].pc = "l81"

\* C35: a poll that sees status 'complete' sees percentage 100, and a poll that
\* sees status 'error' sees the error text as result.
C35_TerminalStatusIsSettled ==
    Polled =>
        /\ call.seen.status = "complete" => call.seen.percentage = 100
        /\ call.seen.status = "error" => call.seen.result.kind = "error"

\* the defaults overridden by the settings of the file
Overridden(file) ==
    [sort_by |-> IF file.sort_by # Unset THEN file.sort_by ELSE "relevance",
     mongodb |-> [uri |-> IF file.uri # Unset THEN file.uri ELSE "mongodb://localhost:27017"],
     custom_params |-> [source |-> IF file.source # Unset THEN file.source ELSE "Google Maps"]]

\* C36: after any sequence of load_config calls DEFAULT_CONFIG holds its
\* original values, nested sections included, and each call returns the
\* original defaults overridden only by the settings of that call's file.
C36_DefaultsUnchanged ==
    /\ default_config = DEFAULT_CONFIG
    /\ call.fn = "load_config" => call.ret = Overridden(call.file)

\* C32: the company name a session resolves is never the empty string: the
\* name attached to a record and the name a successful attempt returns are
\* non-empty, whichever of the selectors, the page title or the sentinel gave it.
C32_CompanyNameNonEmpty ==
    /\ \A i \in DOMAIN docs : docs[i].company_name # <<>>
    /\ (Returned /\ outcome = "success") =>
           /\ result.company_name # <<>>
           /\ \A i \in DOMAIN result.reviews : result.reviews[i].company_name # <<>>

\* C31: on a panel that only shows cards of NumIds distinct identifiers the
\* loop completes at most 5*(NumIds+1) passes: each identifier is counted as
\* new in at most one pass, so the completed passes never exceed 5 for every
\* identifier counted so far plus the quiet passes since; and scrape starts at
\* most 3 attempts.
C31_LoopTerminates ==
    /\ passCount <= 5 * (NumIds + 1)
    /\ InLoop => passCount <= 5 * Cardinality(seen) + idle_scrolls
    /\ launches <= MaxAttempts

\* the bound is met: a successful attempt that needed all 5*(NumIds+1) passes
C31_Witness ==
    /\ Returned /\ outcome = "success"
    /\ passCount = 5 * (NumIds + 1)
    /\ Len(result.reviews) = NumIds

====
